---- MODULE Spec2Model ----
(***************************************************************************)
(* Verification model of the almetica game server core:                    *)
(*   - the connection manager system (ecs/system/connection_manager.rs),   *)
(*   - the event model (ecs/event.rs),                                     *)
(*   - the accept loop and session tasks (networkserver.rs).               *)
(***************************************************************************)
EXTENDS Integers, Sequences, FiniteSets, TLC

(***************************************************************************)
(* Bounds of the model.                                                    *)
(***************************************************************************)
\* Number of connection entities the entity allocator hands out.
MaxEntities == 2
\* Number of request events the connection manager handles in one behaviour.
MaxEvents == 3
\* Number of sockets the accept loop accepts in one behaviour.
MaxTasks == 2
\* Number of times listener.accept() fails in one behaviour.
MaxAcceptErrors == 1
\* Largest element count in the header of a sequence that is decoded.
MaxCount == 3
\* Largest number of bytes behind the header of a string that is decoded.
MaxStrBytes == 4
\* Largest length in the header of a byte buffer that is decoded.
MaxBufLen == 4
\* Number of send_packet_message calls in one behaviour.
MaxSends == 3
\* Number of packet requests handled in one behaviour of a handshake.
MaxRequests == 4

(***************************************************************************)
(* Values.                                                                 *)
(***************************************************************************)
\* Option<Entity>: None, or Some(e) written as the entity e itself.
None == 0
Entities == 1..MaxEntities
OptionEntity == {None} \cup Entities

\* Response channels (tokio Sender<Arc<Event>>), one per session task.
Channels == 1..MaxTasks

\* model::Region values carried by CLoginArbiter.region.
Regions == {"International", "Europe"}

\* Lengths of CCheckVersion.version the handlers are driven with.
VersionLens == {1, 2, 3}

\* CLoginArbiter.ticket byte strings: "hi", and the ill-formed pair C3 28.
Tickets == {<<104, 105>>, <<195, 40>>}

\* The build profiles: an integer overflow panics in a debug build and wraps
\* in a release build.
Builds == {"debug", "release"}

VARIABLES
    world,              \* Connection components: [entity -> Connection]
    connection_mapping, \* ConnectionMapping.map: [entity -> channel]
    allocated,          \* connection entities handed out by start_entity()
    command_buffer,     \* legion CommandBuffer of the running system
    out,                \* response-tagged event entities in the world
    trace,              \* effects of the handlers, in program order
    task,               \* networkserver: state of the task of each socket
    session_id,         \* networkserver: session.connection_id of each task
    global_channel,     \* networkserver: events sent on global_channel
    net_trace,          \* networkserver: what each task did, in order
    ev_call,            \* event model: last Event::new_from_packet call
    ev,                 \* event model: the event under inspection
    ev_view,            \* event model: results of the accessors on ev
    build,              \* codec: the build profile, "debug" or "release"
    de,                 \* codec: the last from_vec call and what it did
    connections,        \* global world: Connection storage [entity -> Connection]
    inbox,              \* global world: messages delivered on each channel
    dispatch            \* global world: the last send_packet_message call

cmVars == <<world, connection_mapping, allocated, command_buffer, out, trace>>
netVars == <<task, session_id, global_channel, net_trace>>
evVars == <<ev_call, ev, ev_view>>
decVars == <<build, de>>
gwVars == <<connections, inbox, dispatch>>
vars == <<world, connection_mapping, allocated, command_buffer, out, trace,
          task, session_id, global_channel, net_trace, ev_call, ev, ev_view,
          build, de, connections, inbox, dispatch>>

(***************************************************************************)
(* Packets and events of the connection manager.                           *)
(***************************************************************************)
\* CCheckVersion with a version array of n entries.
CCheckVersion(n) ==
    [version |-> [i \in 1..n |-> [index |-> i - 1, value |-> 363037 - i]]]

CLoginArbiter(ticket, region) ==
    [master_account_name |-> "test", ticket |-> ticket, unk1 |-> 0,
     unk2 |-> 0, region |-> region, patch_version |-> 0]

RequestRegisterConnection(response_channel) ==
    [ty |-> "RequestRegisterConnection", response_channel |-> response_channel]

RequestCheckVersion(connection, packet) ==
    [ty |-> "RequestCheckVersion", connection |-> connection, packet |-> packet]

RequestLoginArbiter(connection, packet) ==
    [ty |-> "RequestLoginArbiter", connection |-> connection, packet |-> packet]

\* std::str::from_utf8: TRUE iff the bytes are well-formed UTF-8.
RECURSIVE from_utf8(_)
from_utf8(b) ==
    LET cont(i) == i <= Len(b) /\ b[i] >= 128 /\ b[i] <= 191
    IN  IF b = <<>> THEN TRUE
        ELSE IF b[1] <= 127 THEN from_utf8(Tail(b))
        ELSE IF b[1] >= 194 /\ b[1] <= 223
             THEN cont(2) /\ from_utf8(SubSeq(b, 3, Len(b)))
        ELSE IF b[1] >= 224 /\ b[1] <= 239
             THEN /\ cont(2) /\ cont(3)
                  /\ (b[1] = 224 => b[2] >= 160)
                  /\ (b[1] = 237 => b[2] <= 159)
                  /\ from_utf8(SubSeq(b, 4, Len(b)))
        ELSE IF b[1] >= 240 /\ b[1] <= 244
             THEN /\ cont(2) /\ cont(3) /\ cont(4)
                  /\ (b[1] = 240 => b[2] >= 144)
                  /\ (b[1] = 244 => b[2] <= 143)
                  /\ from_utf8(SubSeq(b, 5, Len(b)))
        ELSE FALSE

(***************************************************************************)
(* Response constructors.                                                  *)
(***************************************************************************)
assemble_loading_screen_info(connection) ==
    [ty |-> "ResponseLoadingScreenControlInfo", connection |-> connection,
     packet |-> [custom_screen_enabled |-> FALSE]]

accept_connection_registration(connection) ==
    [ty |-> "ResponseRegisterConnection", connection |-> connection]

\* Mutant of accept_check_version: the response is addressed to the first
\* connection, whoever asked.
accept_check_version_to_first(connection) ==
    [ty |-> "ResponseCheckVersion", connection |-> 1,
     packet |-> [ok |-> TRUE]]

accept_check_version(connection) ==
    [ty |-> "ResponseCheckVersion", connection |-> connection,
     packet |-> [ok |-> TRUE]]

reject_check_version(connection) ==
    [ty |-> "ResponseCheckVersion", connection |-> connection,
     packet |-> [ok |-> FALSE]]

\* Mutant of accept_login_arbiter: the region of the request is not copied.
accept_login_arbiter_fixed_region(connection, packet) ==
    [ty |-> "ResponseLoginArbiter", connection |-> connection,
     packet |-> [success |-> TRUE, login_queue |-> FALSE, status |-> 1,
                 unk1 |-> 0, region |-> "International", pvp_disabled |-> TRUE,
                 unk2 |-> 0, unk3 |-> 0]]

accept_login_arbiter(connection, packet) ==
    [ty |-> "ResponseLoginArbiter", connection |-> connection,
     packet |-> [success |-> TRUE, login_queue |-> FALSE, status |-> 1,
                 unk1 |-> 0, region |-> packet.region, pvp_disabled |-> TRUE,
                 unk2 |-> 0, unk3 |-> 0]]

\* Mutant of reject_login_arbiter: the refusal carries the status of an accept.
reject_login_arbiter_status_one(connection, packet) ==
    [ty |-> "ResponseLoginArbiter", connection |-> connection,
     packet |-> [success |-> FALSE, login_queue |-> FALSE, status |-> 1,
                 unk1 |-> 0, region |-> packet.region, pvp_disabled |-> FALSE,
                 unk2 |-> 0, unk3 |-> 0]]

reject_login_arbiter(connection, packet) ==
    [ty |-> "ResponseLoginArbiter", connection |-> connection,
     packet |-> [success |-> FALSE, login_queue |-> FALSE, status |-> 0,
                 unk1 |-> 0, region |-> packet.region, pvp_disabled |-> FALSE,
                 unk2 |-> 0, unk3 |-> 0]]

(***************************************************************************)
(* The handlers.  A handler is a function of the state it can reach        *)
(*   st = [world, map, allocated, command_buffer, trace, result]           *)
(* and returns that state after the call.                                  *)
(***************************************************************************)
\* send_event: queue an entity carrying the event, tagged Response.
send_event(event, st) ==
    [st EXCEPT !.command_buffer = Append(@, [cmd |-> "event", event |-> event]),
               !.trace = Append(@, [op |-> "send", event |-> event])]

\* Mutant of handle_post_initialization: nothing is sent.
handle_post_initialization_silent(connection, st) == [st EXCEPT !.result = "Ok"]

handle_post_initialization(connection, st) ==
    [send_event(assemble_loading_screen_info(connection), st)
        EXCEPT !.result = "Ok"]

\* Mutant of start_entity: the allocator hands out the same id again.
start_entity_reused(st) == 1

\* command_buffer.start_entity(): the entity id the allocator hands out next.
start_entity(st) == st.allocated + 1

\* connection_mapping.insert(connection_entity, response_channel.clone()).
insert(map, connection_entity, response_channel) ==
    [e \in DOMAIN map \cup {connection_entity} |->
        IF e = connection_entity THEN response_channel ELSE map[e]]

handle_connection_registration(response_channel, st) ==
    LET connection == [verified |-> FALSE, version_checked |-> FALSE]
        connection_entity == start_entity(st)
        s1 == [st EXCEPT
                 !.allocated = @ + 1,
                 !.command_buffer =
                     Append(@, [cmd |-> "entity", entity |-> connection_entity,
                                component |-> connection]),
                 !.trace = Append(@, [op |-> "spawn",
                                      entity |-> connection_entity,
                                      component |-> connection])]
        s2 == [s1 EXCEPT
                 !.map = insert(@, connection_entity, response_channel),
                 !.trace = Append(@, [op |-> "insert",
                                      entity |-> connection_entity,
                                      channel |-> response_channel])]
    IN  send_event(accept_connection_registration(connection_entity), s2)

\* Mutant of version_len_mismatch: only too short an array is refused.
version_len_too_short(packet) == Len(packet.version) < 2

\* packet.version.len() != 2
version_len_mismatch(packet) == Len(packet.version) # 2

\* Mutant of entity_not_set: a request without a connection id is passed
\* over without an error.
entity_not_set_ignored(st) == [st EXCEPT !.result = "Ok"]

\* error!(..); Err(Error::EntityNotSet)
entity_not_set(st) == [st EXCEPT !.result = "EntityNotSet"]

\* Mutant of vetted: one passed check is taken for a completed handshake.
vetted_by_either(component) == component.verified \/ component.version_checked

\* component.verified && component.version_checked
vetted(component) == component.verified /\ component.version_checked

\* Mutant of version_checked_set: passing the version check also verifies.
version_checked_and_verified_set(component) ==
    [component EXCEPT !.version_checked = TRUE, !.verified = TRUE]

\* component.version_checked = true
version_checked_set(component) == [component EXCEPT !.version_checked = TRUE]

handle_request_check_version(connection, packet, st) ==
    IF connection # None
    THEN IF version_len_mismatch(packet)
         THEN [send_event(reject_check_version(connection), st)
                  EXCEPT !.result = "Ok"]
         ELSE IF connection \in DOMAIN st.world
              THEN LET s1 == [st EXCEPT
                                !.world[connection] = version_checked_set(@)]
                       s2 == send_event(accept_check_version(connection), s1)
                       component == s2.world[connection]
                   IN  IF vetted(component)
                       THEN handle_post_initialization(connection, s2)
                       ELSE [s2 EXCEPT !.result = "Ok"]
              ELSE [send_event(reject_check_version(connection), st)
                       EXCEPT !.result = "Ok"]
    ELSE entity_not_set(st)

handle_request_login_arbiter(connection, packet, st) ==
    IF connection # None
    THEN IF ~from_utf8(packet.ticket)
         THEN [st EXCEPT !.result = "Utf8Error"]
         ELSE IF connection \in DOMAIN st.world
              THEN LET s1 == [st EXCEPT !.world[connection].verified = TRUE]
                       s2 == send_event(accept_login_arbiter(connection, packet), s1)
                       component == s2.world[connection]
                   IN  IF vetted(component)
                       THEN handle_post_initialization(connection, s2)
                       ELSE [s2 EXCEPT !.result = "Ok"]
              ELSE [send_event(reject_login_arbiter(connection, packet), st)
                       EXCEPT !.result = "Ok"]
    ELSE entity_not_set(st)

(***************************************************************************)
(* The ConnectionManager system: one arm of the match per request event.   *)
(***************************************************************************)
\* The state a handler is called with, after the system picked up `event`.
Incoming(event) ==
    [world |-> world, map |-> connection_mapping, allocated |-> allocated,
     command_buffer |-> command_buffer,
     trace |-> Append(trace, [op |-> "handle", event |-> event]),
     result |-> "Unit"]

\* Write back the state the handler returned; the match arm logs an Err.
Commit(st) ==
    /\ world' = st.world
    /\ connection_mapping' = st.map
    /\ allocated' = st.allocated
    /\ command_buffer' = st.command_buffer
    /\ trace' = Append(st.trace, [op |-> "return", result |-> st.result])
    /\ UNCHANGED out

NumHandled == Len(SelectSeq(trace, LAMBDA t : t.op = "handle"))

SystemRegisterConnection(response_channel) ==
    /\ NumHandled < MaxEvents
    /\ allocated < MaxEntities
    /\ Commit(handle_connection_registration(
                response_channel,
                Incoming(RequestRegisterConnection(response_channel))))

SystemCheckVersion(connection, n) ==
    /\ NumHandled < MaxEvents
    /\ Commit(handle_request_check_version(
                connection, CCheckVersion(n),
                Incoming(RequestCheckVersion(connection, CCheckVersion(n)))))

SystemLoginArbiter(connection, ticket, region) ==
    /\ NumHandled < MaxEvents
    /\ Commit(handle_request_login_arbiter(
                connection, CLoginArbiter(ticket, region),
                Incoming(RequestLoginArbiter(connection,
                                             CLoginArbiter(ticket, region)))))

\* End of the system run: the command buffer is written into the world.
RECURSIVE ApplyCommands(_, _)
ApplyCommands(cmds, w) ==
    IF cmds = <<>> THEN w
    ELSE LET c == Head(cmds)
             w1 == IF c.cmd = "entity"
                   THEN [w EXCEPT !.world =
                           [e \in DOMAIN @ \cup {c.entity} |->
                              IF e = c.entity THEN c.component ELSE @[e]]]
                   ELSE [w EXCEPT !.out = Append(@, c.event)]
         IN  ApplyCommands(Tail(cmds), w1)

Flush ==
    /\ command_buffer # <<>>
    /\ LET w == ApplyCommands(command_buffer, [world |-> world, out |-> out])
       IN  /\ world' = w.world
           /\ out' = w.out
    /\ command_buffer' = <<>>
    /\ trace' = Append(trace, [op |-> "flush"])
    /\ UNCHANGED <<connection_mapping, allocated>>

(***************************************************************************)
(* Specification of the connection manager.                                *)
(***************************************************************************)
InitCm ==
    /\ world = <<>>
    /\ connection_mapping = <<>>
    /\ allocated = 0
    /\ command_buffer = <<>>
    /\ out = <<>>
    /\ trace = <<>>

InitNet ==
    /\ task = [t \in Channels |-> "listening"]
    /\ session_id = [t \in Channels |-> None]
    /\ global_channel = <<>>
    /\ net_trace = <<>>

InitEv ==
    /\ ev_call = [called |-> FALSE]
    /\ ev = [ty |-> "NoEvent"]
    /\ ev_view = [viewed |-> FALSE]

\* No body was decoded yet.
InitCodec == de = [called |-> FALSE]

\* The global world holds no connection and nothing was dispatched.
InitGw ==
    /\ connections = <<>>
    /\ inbox = [ch \in Channels |-> <<>>]
    /\ dispatch = [called |-> FALSE]

InitParts == InitCm /\ InitNet /\ InitEv /\ InitCodec /\ InitGw

\* The connection manager and the accept loop do not decode: no step of
\* theirs depends on the build profile.
Init == InitParts /\ build = "release"

\* The codec is run under both build profiles.
InitBuilds == InitParts /\ build \in Builds

RegisterConnection ==
    \E response_channel \in Channels :
        /\ SystemRegisterConnection(response_channel)
        /\ UNCHANGED <<netVars, evVars, decVars, gwVars>>

\* The connection ids requests are driven with: None, every entity handed out
\* so far, and one entity that was never handed out.
RequestIds == {None} \cup {e \in Entities : e <= allocated + 1}

CheckVersion ==
    \E connection \in RequestIds, n \in VersionLens :
        /\ SystemCheckVersion(connection, n)
        /\ UNCHANGED <<netVars, evVars, decVars, gwVars>>

LoginArbiter ==
    \E connection \in RequestIds, ticket \in Tickets, region \in Regions :
        /\ SystemLoginArbiter(connection, ticket, region)
        /\ UNCHANGED <<netVars, evVars, decVars, gwVars>>

EndOfSystem == Flush /\ UNCHANGED <<netVars, evVars, decVars, gwVars>>

Next == RegisterConnection \/ CheckVersion \/ LoginArbiter \/ EndOfSystem

Spec == Init /\ [][Next]_vars

(***************************************************************************)
(* The network server: the accept loop of run() and the task it spawns for *)
(* every accepted socket.  A task is                                       *)
(*   "listening"  not accepted yet                                         *)
(*   "spawned"    task::spawn done, GameSession::new not started           *)
(*   "creating"   inside GameSession::new, registration requested          *)
(*   "running"    inside session.handle_connection()                       *)
(*   "closed"     the task has ended                                       *)
(* The response channel of the session of task t is channel t.             *)
(***************************************************************************)
Log(t, step) == net_trace' = Append(net_trace, [task |-> t, step |-> step])

\* listener.accept() returned Ok: the socket gets its own task.
Accept(t) ==
    /\ task[t] = "listening"
    /\ \A u \in Channels : u < t => task[u] # "listening"
    /\ task' = [task EXCEPT ![t] = "spawned"]
    /\ Log(t, "spawn")
    /\ UNCHANGED <<session_id, global_channel, cmVars, evVars, decVars, gwVars>>

\* listener.accept() returned Err: logged, the loop goes on.
AcceptError ==
    /\ Len(SelectSeq(net_trace, LAMBDA n : n.step = "accept_error")) < MaxAcceptErrors
    /\ Log(None, "accept_error")
    /\ UNCHANGED <<task, session_id, global_channel, cmVars, evVars, decVars, gwVars>>

\* GameSession::new, registering: RequestRegisterConnection{response_channel}
\* is sent on the task's clone of the global channel.
SessionRegister(t) ==
    /\ task[t] = "spawned"
    /\ task' = [task EXCEPT ![t] = "creating"]
    /\ global_channel' = Append(global_channel, RequestRegisterConnection(t))
    /\ Log(t, "new")
    /\ UNCHANGED <<session_id, cmVars, evVars, decVars, gwVars>>

\* The connection ids GameSession::new can return to task t: the entity whose
\* ResponseRegisterConnection reached the response channel of t.
RegisteredIds(t) ==
    {e \in DOMAIN connection_mapping :
        /\ connection_mapping[e] = t
        /\ \E i \in 1..Len(out) : out[i] = accept_connection_registration(e)}

\* GameSession::new returned Ok(session): handle_connection is entered.
SessionCreated(t) ==
    /\ task[t] = "creating"
    /\ \E e \in RegisteredIds(t) :
          session_id' = [session_id EXCEPT ![t] = e]
    /\ task' = [task EXCEPT ![t] = "running"]
    /\ Log(t, "handle_connection")
    /\ UNCHANGED <<global_channel, cmVars, evVars, decVars, gwVars>>

\* Mutant of SessionCreationFailed: the session is run although its creation
\* failed.
SessionCreationFailedThenRuns(t) ==
    /\ task[t] \in {"spawned", "creating"}
    /\ task' = [task EXCEPT ![t] = "running"]
    /\ Log(t, "new_failed")
    /\ UNCHANGED <<session_id, global_channel, cmVars, evVars, decVars, gwVars>>

\* GameSession::new returned Err: logged, the task ends.
SessionCreationFailed(t) ==
    /\ task[t] \in {"spawned", "creating"}
    /\ task' = [task EXCEPT ![t] = "closed"]
    /\ Log(t, "new_failed")
    /\ UNCHANGED <<session_id, global_channel, cmVars, evVars, decVars, gwVars>>

\* Mutant of SessionClosed: the end of one session ends every task.
SessionClosedAll(t, result) ==
    /\ task[t] = "running"
    /\ task' = [u \in Channels |-> "closed"]
    /\ Log(t, result)
    /\ UNCHANGED <<session_id, global_channel, cmVars, evVars, decVars, gwVars>>

\* handle_connection returned, Ok or Err: logged, the task ends.
SessionClosed(t, result) ==
    /\ task[t] = "running"
    /\ task' = [task EXCEPT ![t] = "closed"]
    /\ Log(t, result)
    /\ UNCHANGED <<session_id, global_channel, cmVars, evVars, decVars, gwVars>>

\* The global world picks the next event off its queue: the connection
\* manager handles the registration request.
WorldRegister ==
    /\ global_channel # <<>>
    /\ SystemRegisterConnection(Head(global_channel).response_channel)
    /\ global_channel' = Tail(global_channel)
    /\ UNCHANGED <<task, session_id, net_trace, evVars, decVars, gwVars>>

NextServer ==
    \/ \E t \in Channels : Accept(t)
    \/ AcceptError
    \/ \E t \in Channels : SessionRegister(t)
    \/ \E t \in Channels : SessionCreated(t)
    \/ \E t \in Channels : SessionCreationFailed(t)
    \/ \E t \in Channels : SessionClosed(t, "Ok")
    \/ \E t \in Channels : SessionClosed(t, "Err")
    \/ WorldRegister
    \/ EndOfSystem

SpecServer == Init /\ [][NextServer]_vars

(***************************************************************************)
(* The event model (ecs/event.rs).  An event is a record                   *)
(*   [ty, connection_id, packet]   a packet event                          *)
(*   [ty, connection_id]           a system event                          *)
(*   [ty, response_channel]        RequestRegisterConnection               *)
(* Every packet struct is represented by one string field, name, held as   *)
(* its sequence of code points; a body is the byte string of that packet.  *)
(***************************************************************************)
\* Option<T> of the accessors.
OptNone == [is_some |-> FALSE]
Some(x) == [is_some |-> TRUE, value |-> x]

\* Result<T>.
Ok(x) == [ok |-> TRUE, value |-> x]
Err(e) == [ok |-> FALSE, err |-> e]

\* The "Packet Events" list of assemble_event!.
PacketEvents ==
    { [ty |-> "RequestLoginArbiter", opcode |-> "C_LOGIN_ARBITER", target |-> "Global"],
      [ty |-> "ResponseLoginArbiter", opcode |-> "S_LOGIN_ARBITER", target |-> "Connection"],
      [ty |-> "RequestCheckVersion", opcode |-> "C_CHECK_VERSION", target |-> "Global"],
      [ty |-> "ResponseCheckVersion", opcode |-> "S_CHECK_VERSION", target |-> "Connection"],
      [ty |-> "ResponseLoadingScreenControlInfo",
       opcode |-> "S_LOADING_SCREEN_CONTROL_INFO", target |-> "Connection"],
      [ty |-> "ResponseRemainPlayTime", opcode |-> "S_REMAIN_PLAY_TIME", target |-> "Connection"],
      [ty |-> "ResponseLoginAccountInfo", opcode |-> "S_LOGIN_ACCOUNT_INFO", target |-> "Connection"],
      [ty |-> "RequestSetVisibleRange", opcode |-> "C_SET_VISIBLE_RANGE", target |-> "Global"],
      [ty |-> "RequestGetUserList", opcode |-> "C_GET_USER_LIST", target |-> "Global"],
      [ty |-> "ResponseGetUserList", opcode |-> "S_GET_USER_LIST", target |-> "Global"],
      [ty |-> "RequestPong", opcode |-> "C_PONG", target |-> "Global"],
      [ty |-> "ResponsePing", opcode |-> "S_PING", target |-> "Connection"],
      [ty |-> "RequestCanCreateUser", opcode |-> "C_CAN_CREATE_USER", target |-> "Global"],
      [ty |-> "ResponseCanCreateUser", opcode |-> "S_CAN_CREATE_USER", target |-> "Connection"],
      [ty |-> "RequestCheckUserName", opcode |-> "C_CHECK_USERNAME", target |-> "Global"],
      [ty |-> "ResponseCheckUserName", opcode |-> "S_CHECK_USERNAME", target |-> "Connection"],
      [ty |-> "RequestCreateUser", opcode |-> "C_CREATE_USER", target |-> "Global"],
      [ty |-> "ResponseCreateUser", opcode |-> "S_CREATE_USER", target |-> "Connection"] }

\* The "System Events" list of assemble_event!.
SystemEvents ==
    { [ty |-> "ResponseRegisterConnection", target |-> "Connection"],
      [ty |-> "ResponseDropConnection", target |-> "Connection"] }

PacketEventOf(ty) == CHOOSE p \in PacketEvents : p.ty = ty
IsPacketEvent(event) == \E p \in PacketEvents : p.ty = event.ty
IsSystemEvent(event) == \E q \in SystemEvents : q.ty = event.ty

\* Opcodes of the opcode table that no packet event is declared for.
OtherOpcodes == {"C_EXIT", "S_EXIT", "UNKNOWN"}
Opcodes == {p.opcode : p \in PacketEvents} \cup OtherOpcodes

(***************************************************************************)
(* The codec (protocol/serde/de.rs).  A Deserializer is a record            *)
(*   d = [data, pos, log, out]                                             *)
(* data and pos are its fields; out is what the last call returned, Ok(v)  *)
(* or Err(e), where Err("Panic") is a panic of the thread; log is what the *)
(* decoder did, in program order:                                          *)
(*   [op |-> "read", at, n, what, derived, off]   the slice data[at..at+n] *)
(*       was taken; derived says that at comes from the wire offset off    *)
(*   [op |-> "abs_offset", offset, abs, what]     a wire offset converted  *)
(*   [op |-> "seek" | "self" | "next" | "element" | "restore", seq, ...]   *)
(*       the steps of a sequence, seq being the position after its header  *)
(* A type T the decoder is driven by is one of U8, U16, U32, Str, ByteBuf, *)
(* SeqOf(T) and Struct(<<field, ...>>).                                      *)
(***************************************************************************)
U8 == [k |-> "u8"]
U16 == [k |-> "u16"]
U32 == [k |-> "u32"]
Str == [k |-> "str"]
ByteBuf == [k |-> "byte_buf"]
SeqOf(T) == [k |-> "seq", elem |-> T]
Field(name, T) == [name |-> name, ty |-> T]
Struct(fields) == [k |-> "struct", fields |-> fields]

\* usize: a value below 0 stands for that value + 2^64, which is what a
\* subtraction below 0 wraps to.
wrapped(x) == x < 0
usize_ge(a, b) == IF wrapped(a) = wrapped(b) THEN a >= b ELSE wrapped(a)
usize_gt(a, b) == IF wrapped(a) = wrapped(b) THEN a > b ELSE wrapped(a)

\* LittleEndian::read_u16 at 0-based position pos of data.
read_u16(data, pos) == data[pos + 1] + 256 * data[pos + 2]

\* LittleEndian::read_u32 at 0-based position pos of data.
read_u32(data, pos) == read_u16(data, pos) + 65536 * read_u16(data, pos + 2)

\* Mutant of abs_offset: a wire offset is taken for a position of the body.
abs_offset_unshifted(offset) == offset

\* Deserializer::abs_offset: a position of the body from a wire offset.
abs_offset(offset) == IF offset = 0 THEN offset ELSE offset - 4

\* offset - 4 in a debug build: "attempt to subtract with overflow".
overflow_panics(abs) == wrapped(abs) /\ build = "debug"

\* Deserializer::from_vec
Deserializer(r) == [data |-> r, pos |-> 0, log |-> <<>>, out |-> Ok(<<>>)]

Visit(d, v) == [d EXCEPT !.out = Ok(v)]
Fail(d, e) == [d EXCEPT !.out = Err(e)]
Panic(d) == [d EXCEPT !.out = Err("Panic")]

\* data[from..from + n] lies in data.
in_bounds(d, from, n) == from >= 0 /\ from + n <= Len(d.data)

\* The slice data[at..at + n] is taken at the position pos the decoder is at.
inline(d, at, n, what) ==
    [d EXCEPT !.log = Append(@, [op |-> "read", at |-> at, n |-> n,
                                 what |-> what, derived |-> FALSE, off |-> 0])]

\* The slice data[at..at + n] is taken at a position the wire offset off gave.
deref(d, at, n, what, off) ==
    [d EXCEPT !.log = Append(@, [op |-> "read", at |-> at, n |-> n,
                                 what |-> what, derived |-> TRUE, off |-> off])]

\* The record of a conversion of a wire offset.
converted(d, offset, what) ==
    [d EXCEPT !.log = Append(@, [op |-> "abs_offset", offset |-> offset,
                                 abs |-> abs_offset(offset), what |-> what])]

\* deserialize_u8: self.pos += 1; self.data[self.pos - 1]
deserialize_u8(d) ==
    LET d1 == inline(d, d.pos, 1, "u8")
    IN  IF ~in_bounds(d, d.pos, 1) THEN Panic(d1)
        ELSE [d1 EXCEPT !.pos = @ + 1, !.out = Ok(d.data[d.pos + 1])]

\* impl_nums!(u16, ..., 2)
deserialize_u16(d) ==
    LET d1 == inline(d, d.pos, 2, "u16")
    IN  IF ~in_bounds(d, d.pos, 2) THEN Panic(d1)
        ELSE [d1 EXCEPT !.pos = @ + 2, !.out = Ok(read_u16(d.data, d.pos))]

\* impl_nums!(u32, ..., 4)
deserialize_u32(d) ==
    LET d1 == inline(d, d.pos, 4, "u32")
    IN  IF ~in_bounds(d, d.pos, 4) THEN Panic(d1)
        ELSE [d1 EXCEPT !.pos = @ + 4, !.out = Ok(read_u32(d.data, d.pos))]

\* The for loop of deserialize_str, at index i: the code units of the string
\* when data[i], data[i + 1] is the first 16-bit zero on the grid.
RECURSIVE scan(_, _, _, _)
scan(d, off, abs_pos, i) ==
    IF i >= Len(d.data) THEN Fail(d, "StringNotNullTerminated")
    ELSE LET d1 == deref(d, i, 1, "str_unit", off)
         IN  IF d.data[i + 1] # 0 THEN scan(d1, off, abs_pos, i + 2)
             ELSE LET d2 == deref(d1, i + 1, 1, "str_unit", off)
                  IN  IF ~in_bounds(d, i + 1, 1) THEN Panic(d2)
                      ELSE IF d.data[i + 2] # 0
                           THEN scan(d2, off, abs_pos, i + 2)
                           ELSE Visit(d2, [j \in 1..((i - abs_pos) \div 2) |->
                                        read_u16(d.data, abs_pos + (j - 1) * 2)])

\* deserialize_str: the code units up to the first 16-bit zero found in
\* 2-byte steps from the position the header names.
deserialize_str(d) ==
    LET d1 == inline(d, d.pos, 2, "str_header")
    IN  IF ~in_bounds(d, d.pos, 2) THEN Panic(d1)
        ELSE LET tmp_offset == read_u16(d.data, d.pos)
                 abs_pos == abs_offset(tmp_offset)
                 d2 == converted(d1, tmp_offset, "str")
                 d3 == [d2 EXCEPT !.pos = @ + 2]
             IN  IF overflow_panics(abs_pos) THEN Panic(d2)
                 ELSE IF usize_ge(abs_pos, Len(d.data))
                      THEN Fail(d3, "OffsetOutsideData")
                      ELSE scan(d3, tmp_offset, abs_pos, abs_pos)

\* deserialize_byte_buf
deserialize_byte_buf(d) ==
    LET d1 == inline(d, d.pos, 2, "buf_offset")
    IN  IF ~in_bounds(d, d.pos, 2) THEN Panic(d1)
        ELSE LET tmp_offset == read_u16(d.data, d.pos)
                 abs == abs_offset(tmp_offset)
                 d2 == converted(d1, tmp_offset, "byte_buf")
                 d3 == inline([d2 EXCEPT !.pos = @ + 2], d.pos + 2, 2, "buf_len")
             IN  IF overflow_panics(abs) THEN Panic(d2)
                 ELSE IF ~in_bounds(d, d.pos + 2, 2) THEN Panic(d3)
                 ELSE LET len == read_u16(d.data, d.pos + 2)
                          d4 == [d3 EXCEPT !.pos = @ + 2]
                          d5 == deref(d4, abs, len, "buf_payload", tmp_offset)
                      IN  IF usize_gt(abs + len, Len(d.data))
                          THEN Fail(d4, "BytesTooBig")
                          ELSE IF ~in_bounds(d, abs, len) THEN Panic(d5)
                          ELSE Visit(d5, SubSeq(d.data, abs + 1, abs + len))

RECURSIVE deserialize(_, _)
RECURSIVE deserialize_tuple(_, _, _)
RECURSIVE visit_seq(_, _, _, _)

\* A step of a sequence in the log.
step(d, op, access, rest) ==
    [d EXCEPT !.log = Append(@, [op |-> op, seq |-> access.old_pos,
                                 i |-> access.total - access.count] @@ rest)]

\* Mutant of has_next: one more element is decoded than the header counts.
has_next_inclusive(access) == access.count >= 0

\* self.count > 0
has_next(access) == access.count > 0

\* Mutant of seq_entry_differs: every entry is taken for the expected one.
seq_entry_accepted(abs, next_offset) == FALSE

\* abs_offset != self.next_offset
seq_entry_differs(abs, next_offset) == abs # next_offset

\* Mutant of end_of_header: the position stays behind the last element.
end_of_last_element(access, d) == d.pos

\* "Return to the end of the array header": self.old_pos
end_of_header(access, d) == access.old_pos

\* Access::next_element_seed of deserialize_seq: the Access and the
\* Deserializer after the call; out is Ok(Some(value)), Ok(None) or an Err.
next_element_seed(seed, access, d) ==
    IF has_next(access)
    THEN LET a1 == [access EXCEPT !.count = @ - 1]
             off == access.next_wire
             expected == access.next_offset
             d1 == step(d, "seek", access, [to |-> expected])
             d2 == deref([d1 EXCEPT !.pos = expected], expected, 2, "seq_self", off)
         IN  IF usize_ge(expected, access.data_len)
             THEN [access |-> a1, d |-> Fail(d, "OffsetOutsideData")]
             ELSE IF ~in_bounds(d, expected, 2) THEN [access |-> a1, d |-> Panic(d2)]
             ELSE
             LET self_offset == read_u16(d.data, expected)
                 abs_self == abs_offset(self_offset)
                 d3 == converted(d2, self_offset, "seq_self")
                 d4 == step([d3 EXCEPT !.pos = @ + 2], "self", access,
                            [expected |-> expected, abs |-> abs_self])
                 d5 == deref(d4, expected + 2, 2, "seq_next", off)
             IN  IF overflow_panics(abs_self) THEN [access |-> a1, d |-> Panic(d3)]
                 ELSE IF seq_entry_differs(abs_self, expected)
                      THEN [access |-> a1, d |-> Fail(d4, "InvalidSeqEntry")]
                 ELSE IF ~in_bounds(d, expected + 2, 2)
                      THEN [access |-> a1, d |-> Panic(d5)]
                 ELSE
                 LET next_wire == read_u16(d.data, expected + 2)
                     abs_next == abs_offset(next_wire)
                     d6 == converted(d5, next_wire, "seq_next")
                     a2 == [a1 EXCEPT !.next_offset = abs_next,
                                      !.next_wire = next_wire]
                     d7 == step([d6 EXCEPT !.pos = @ + 2], "next", access,
                                [abs |-> abs_next, expected |-> expected])
                     d8 == deserialize(seed, step(d7, "element", access,
                                                  [at |-> d7.pos]))
                 IN  IF overflow_panics(abs_next) THEN [access |-> a1, d |-> Panic(d6)]
                     ELSE IF d8.out.ok
                          THEN [access |-> a2, d |-> Visit(d8, Some(d8.out.value))]
                          ELSE [access |-> a2, d |-> d8]
    ELSE LET d1 == [d EXCEPT !.pos = end_of_header(access, d)]
         IN  [access |-> access,
              d |-> Visit(step(d1, "restore", access, [pos |-> d1.pos]), OptNone)]

\* Vec<T>'s visitor: next_element() until it returns None.
visit_seq(seed, access, d, values) ==
    LET r == next_element_seed(seed, access, d)
    IN  IF ~r.d.out.ok THEN r.d
        ELSE IF r.d.out.value.is_some
             THEN visit_seq(seed, r.access, r.d, Append(values, r.d.out.value.value))
             ELSE Visit(r.d, values)

\* deserialize_seq
deserialize_seq(seed, d) ==
    LET d1 == inline(d, d.pos, 2, "seq_count")
        d2 == inline([d1 EXCEPT !.pos = @ + 2], d.pos + 2, 2, "seq_first")
    IN  IF ~in_bounds(d, d.pos, 2) THEN Panic(d1)
        ELSE IF ~in_bounds(d, d.pos + 2, 2) THEN Panic(d2)
        ELSE LET count == read_u16(d.data, d.pos)
                 tmp_offset == read_u16(d.data, d.pos + 2)
                 next_offset == abs_offset(tmp_offset)
                 d3 == converted(d2, tmp_offset, "seq_first")
                 old_pos == d.pos + 4
                 access == [count |-> count, data_len |-> Len(d.data),
                            next_offset |-> next_offset, old_pos |-> old_pos,
                            total |-> count, next_wire |-> tmp_offset]
                 d4 == [d3 EXCEPT !.pos = old_pos,
                           !.log = Append(@, [op |-> "seq_header", at |-> d.pos,
                                              count |-> count, seq |-> old_pos])]
             IN  IF overflow_panics(next_offset) THEN Panic(d3)
                 ELSE visit_seq(seed, access, d4, <<>>)

\* deserialize_tuple, as deserialize_struct calls it: the fields in the order
\* of their declaration; value is the struct built so far.
deserialize_tuple(fields, d, value) ==
    IF fields = <<>> THEN Visit(d, value)
    ELSE LET d1 == deserialize(Head(fields).ty, d)
         IN  IF d1.out.ok
             THEN deserialize_tuple(Tail(fields), d1,
                                    value @@ (Head(fields).name :> d1.out.value))
             ELSE d1

\* deserialize_struct
deserialize_struct(fields, d) == deserialize_tuple(fields, d, <<>>)

\* T::deserialize(&mut deserializer)
deserialize(T, d) ==
    CASE T.k = "u8" -> deserialize_u8(d)
      [] T.k = "u16" -> deserialize_u16(d)
      [] T.k = "u32" -> deserialize_u32(d)
      [] T.k = "str" -> deserialize_str(d)
      [] T.k = "byte_buf" -> deserialize_byte_buf(d)
      [] T.k = "seq" -> deserialize_seq(T.elem, d)
      [] T.k = "struct" -> deserialize_struct(T.fields, d)

\* from_vec::<T>(v): the packet a body decodes to, or the codec error.
from_vec(T, v) == deserialize(T, Deserializer(v)).out

\* The packet struct of the event model: one string field.
NamePacket == Struct(<<Field("name", Str)>>)

\* to_vec: the body of a packet.  The string is written as UCS-2 code units,
\* little-endian, closed by a 16-bit zero, behind the 2-byte header holding
\* its offset; a code point outside the Basic Multilingual Plane is refused.
RECURSIVE ucs2_bytes(_)
ucs2_bytes(units) ==
    IF units = <<>> THEN <<0, 0>>
    ELSE <<Head(units) % 256, Head(units) \div 256>> \o ucs2_bytes(Tail(units))

to_vec(packet) ==
    IF \E i \in 1..Len(packet.name) : packet.name[i] > 65535
    THEN Err("Ucs2")
    ELSE Ok(<<6, 0>> \o ucs2_bytes(packet.name))

\* Mutant of new_from_packet: only the opcodes of requests are mapped.
new_from_packet_requests_only(connection_id, opcode, packet_data) ==
    IF \E p \in PacketEvents : p.opcode = opcode /\ p.target # "Connection"
                                /\ p.ty # "ResponseGetUserList"
    THEN LET p == CHOOSE p \in PacketEvents : p.opcode = opcode
             packet == from_vec(NamePacket, packet_data)
         IN  IF packet.ok
             THEN Ok([ty |-> p.ty, connection_id |-> connection_id,
                      packet |-> packet.value])
             ELSE packet
    ELSE Err("NoEventMappingForPacket")

\* Event::new_from_packet
new_from_packet(connection_id, opcode, packet_data) ==
    IF \E p \in PacketEvents : p.opcode = opcode
    THEN LET p == CHOOSE p \in PacketEvents : p.opcode = opcode
             packet == from_vec(NamePacket, packet_data)
         IN  IF packet.ok
             THEN Ok([ty |-> p.ty, connection_id |-> connection_id,
                      packet |-> packet.value])
             ELSE packet
    ELSE Err("NoEventMappingForPacket")

\* Mutant of connection_id: only packet events carry a connection id.
connection_id_packet_events_only(event) ==
    IF IsPacketEvent(event) THEN Some(event.connection_id) ELSE OptNone

\* Event::connection_id
connection_id(event) ==
    IF event.ty = "RequestRegisterConnection" THEN OptNone
    ELSE Some(event.connection_id)

\* Event::data
data(event) ==
    IF IsPacketEvent(event)
    THEN LET bytes == to_vec(event.packet)
         IN  IF bytes.ok THEN Ok(Some(bytes.value)) ELSE bytes
    ELSE Ok(OptNone)

\* Mutant of opcode: only requests have an opcode.
opcode_requests_only(event) ==
    IF IsPacketEvent(event) /\ PacketEventOf(event.ty).target # "Connection"
    THEN Some(PacketEventOf(event.ty).opcode)
    ELSE OptNone

\* Event::opcode
opcode(event) ==
    IF IsPacketEvent(event) THEN Some(PacketEventOf(event.ty).opcode)
    ELSE OptNone

\* Mutant of target: a request is handed back to its connection.
target_of_sender(event) ==
    IF event.ty = "RequestRegisterConnection" THEN "Global"
    ELSE IF IsPacketEvent(event)
         THEN IF PacketEventOf(event.ty).opcode = "C_PONG" THEN "Connection"
              ELSE PacketEventOf(event.ty).target
    ELSE (CHOOSE q \in SystemEvents : q.ty = event.ty).target

\* Mutant of target: every event goes to the global world.
target_global(event) == "Global"

\* Event::target
target(event) ==
    IF event.ty = "RequestRegisterConnection" THEN "Global"
    ELSE IF IsPacketEvent(event) THEN PacketEventOf(event.ty).target
    ELSE (CHOOSE q \in SystemEvents : q.ty = event.ty).target

\* Bodies new_from_packet is driven with: the strings "A" and "", a string
\* that is not closed by a zero, and a header pointing behind the body.
Bodies ==
    { <<6, 0, 65, 0, 0, 0>>, <<6, 0, 0, 0>>, <<6, 0, 65, 0>>, <<12, 0, 65, 0, 0, 0>> }

\* Packets events are built with: the strings "" and "A".
Packets == { [name |-> <<>>], [name |-> <<65>>] }

\* CLoginArbiter with master_account_name U+1F600.
AstralLoginArbiter == [name |-> <<128512>>]

\* The events a system or a session can build directly.
BuiltEvents ==
    {[ty |-> p.ty, connection_id |-> c, packet |-> k] :
        p \in PacketEvents, c \in Entities, k \in Packets}
    \cup {[ty |-> "RequestLoginArbiter", connection_id |-> c,
            packet |-> AstralLoginArbiter] : c \in Entities}
    \cup {[ty |-> q.ty, connection_id |-> c] : q \in SystemEvents, c \in Entities}
    \cup {[ty |-> "RequestRegisterConnection", response_channel |-> ch] :
            ch \in Channels}

\* A session turns an inbound packet into an event.
NewFromPacket ==
    \E c \in Entities, o \in Opcodes, d \in Bodies :
        LET result == new_from_packet(c, o, d)
        IN  /\ ev_call' = [called |-> TRUE, connection_id |-> c, opcode |-> o,
                           packet_data |-> d, result |-> result]
            /\ ev' = IF result.ok THEN result.value ELSE [ty |-> "NoEvent"]
            /\ ev_view' = [viewed |-> FALSE]
            /\ UNCHANGED <<cmVars, netVars, decVars, gwVars>>

\* A system or a session builds an event.
Build ==
    \E event \in BuiltEvents :
        /\ ev' = event
        /\ ev_call' = [called |-> FALSE]
        /\ ev_view' = [viewed |-> FALSE]
        /\ UNCHANGED <<cmVars, netVars, decVars, gwVars>>

\* The accessors are called on the event.
Inspect ==
    /\ ev.ty # "NoEvent"
    /\ ~ev_view.viewed
    /\ ev_view' = [viewed |-> TRUE,
                   connection_id |-> connection_id(ev),
                   data |-> data(ev),
                   opcode |-> opcode(ev),
                   target |-> target(ev)]
    /\ UNCHANGED <<ev, ev_call, cmVars, netVars, decVars, gwVars>>

NextEvent == NewFromPacket \/ Build \/ Inspect

SpecEvent == InitBuilds /\ [][NextEvent]_vars

(***************************************************************************)
(* Driving the codec: the types and the bodies from_vec is called with.    *)
(***************************************************************************)
\* A u16 as it lies in a body.
le16(x) == <<x % 256, x \div 256>>

\* CCheckVersion: one sequence of {index: u32, value: u32}.
CCheckVersionT ==
    Struct(<<Field("version",
                   SeqOf(Struct(<<Field("index", U32), Field("value", U32)>>)))>>)

\* The body of the C_CHECK_VERSION packet of test_opcode_mapping.
CheckVersionBody ==
    << 2, 0, 8, 0, 8, 0, 20, 0, 0, 0, 0, 0, 29, 138, 5, 0,
       20, 0, 0, 0, 1, 0, 0, 0, 206, 123, 5, 0 >>

\* A packet with a sequence of {v: u16} and a field declared after it.
ListThenTail ==
    Struct(<<Field("list", SeqOf(Struct(<<Field("v", U16)>>))), Field("tail", U16)>>)

\* Wire offsets of the sequence bodies: 0, 2 (inside the frame header), 10 and
\* 16 (the two entries of the body) and 22 (the end of the body).
SeqOffsets == {0, 2, 10, 16, 22}

\* header, tail 77, the entry {v: 11} at position 6, {v: 22} at position 12.
ListBody(count, first, self1, next1, self2, next2) ==
    le16(count) \o le16(first) \o le16(77)
    \o le16(self1) \o le16(next1) \o le16(11)
    \o le16(self2) \o le16(next2) \o le16(22)

ListBodies ==
    {ListBody(count, first, self1, next1, self2, next2) :
        count \in 0..MaxCount, first \in SeqOffsets,
        self1 \in SeqOffsets, next1 \in SeqOffsets,
        self2 \in SeqOffsets, next2 \in SeqOffsets}

\* A packet whose sequence elements hold a sequence of u8 themselves.
Nested ==
    Struct(<<Field("outer", SeqOf(Struct(<<Field("inner", SeqOf(U8)),
                                        Field("x", U16)>>))),
             Field("tail", U16)>>)

\* outer header, tail 77, the outer entry at position 6 (inner header, x 55),
\* the inner entries {9} at position 16 and {8} at position 21.
NestedBody(count, inner_count, inner_first, next1) ==
    le16(count) \o le16(10) \o le16(77)
    \o le16(10) \o le16(0) \o le16(inner_count) \o le16(inner_first) \o le16(55)
    \o le16(20) \o le16(next1) \o <<9>>
    \o le16(25) \o le16(0) \o <<8>>

NestedBodies ==
    {NestedBody(count, inner_count, inner_first, next1) :
        count \in 0..1, inner_count \in 0..MaxCount,
        inner_first \in {0, 20, 25}, next1 \in {0, 20, 25}}

\* A packet with a string behind a u16.
TagStr == Struct(<<Field("tag", U16), Field("s", Str)>>)

\* The byte strings over 0 and 'A' of length n.
RECURSIVE Units(_)
Units(n) ==
    IF n = 0 THEN {<<>>}
    ELSE {<<b>> \o u : b \in {0, 65}, u \in Units(n - 1)}

\* tag 'A', the header, and up to MaxStrBytes bytes behind it.
StrBodies ==
    {le16(65) \o le16(header) \o payload :
        header \in 0..(MaxStrBytes + 9),
        payload \in UNION {Units(n) : n \in 0..MaxStrBytes}}

\* A packet with a byte buffer and a field declared after it.
BufThenTail == Struct(<<Field("b", ByteBuf), Field("tail", U16)>>)

\* header (offset, length), tail 77, and the bytes 1 2 3 at position 6.
BufBodies ==
    {le16(offset) \o le16(length) \o le16(77) \o <<1, 2, 3>> :
        offset \in 0..14, length \in 0..MaxBufLen}

DecodeCalls ==
    {[T |-> CCheckVersionT, v |-> CheckVersionBody]}
    \cup {[T |-> ListThenTail, v |-> v] : v \in ListBodies}
    \cup {[T |-> Nested, v |-> v] : v \in NestedBodies}
    \cup {[T |-> TagStr, v |-> v] : v \in StrBodies}
    \cup {[T |-> BufThenTail, v |-> v] : v \in BufBodies}

\* from_vec::<T>(v) is called on a body that came in; de keeps the call and
\* the Deserializer after it.
Decode ==
    /\ ~de.called
    /\ \E call \in DecodeCalls :
        /\ de' = [called |-> TRUE, T |-> call.T, v |-> call.v,
                  d |-> deserialize(call.T, Deserializer(call.v))]
        /\ UNCHANGED <<build, cmVars, netVars, evVars, gwVars>>

NextDecode == Decode

SpecDecode == InitBuilds /\ [][NextDecode]_vars

\* A body cut off after any number of bytes, the empty body included.
Prefixes(body) == {SubSeq(body, 1, n) : n \in 0..Len(body)}

\* Well-formed bodies of each schema, cut off: the packet of
\* test_opcode_mapping, a list of two entries, a nested list, the string "A"
\* and a byte buffer of three bytes.
TruncatedCalls ==
    {[T |-> CCheckVersionT, v |-> v] : v \in Prefixes(CheckVersionBody)}
    \cup {[T |-> ListThenTail, v |-> v] :
            v \in Prefixes(ListBody(2, 10, 10, 16, 16, 0))}
    \cup {[T |-> Nested, v |-> v] : v \in Prefixes(NestedBody(1, 2, 20, 25))}
    \cup {[T |-> TagStr, v |-> v] :
            v \in Prefixes(le16(65) \o le16(8) \o <<65, 0, 0, 0>>)}
    \cup {[T |-> BufThenTail, v |-> v] :
            v \in Prefixes(le16(10) \o le16(3) \o le16(77) \o <<1, 2, 3>>)}

\* from_vec::<T>(v) is called on a body that came in cut off.
DecodeTruncated ==
    /\ ~de.called
    /\ \E call \in TruncatedCalls :
        /\ de' = [called |-> TRUE, T |-> call.T, v |-> call.v,
                  d |-> deserialize(call.T, Deserializer(call.v))]
        /\ UNCHANGED <<build, cmVars, netVars, evVars, gwVars>>

NextTruncated == DecodeTruncated

SpecTruncated == InitBuilds /\ [][NextTruncated]_vars

(***************************************************************************)
(* Dispatch of outgoing packet messages in the global world                *)
(* (ecs/system/global.rs).  A message is an event of the event model; the  *)
(* Connection component of an entity holds the channel of its session.     *)
(* A call works on gw = [connections, inbox, log].                         *)
(***************************************************************************)
\* send_message(message, &connection.channel): the message is handed to the
\* channel.
send_message(message, channel, gw) ==
    [gw EXCEPT !.inbox[channel] = Append(@, message)]

\* connections.try_get(connection_id) is Ok.
try_get_ok(gw, id) == id \in DOMAIN gw.connections

\* Mutant of send_packet_message: a message whose connection is not found is
\* handed to every channel.
send_packet_message_broadcast(message, gw) ==
    LET id == connection_id(message)
    IN  IF id.is_some /\ try_get_ok(gw, id.value)
        THEN send_message(message, gw.connections[id.value].channel, gw)
        ELSE [gw EXCEPT !.inbox = [ch \in DOMAIN @ |-> Append(@[ch], message)]]

\* send_packet_message
send_packet_message(message, gw) ==
    LET id == connection_id(message)
    IN  IF id.is_some
        THEN IF try_get_ok(gw, id.value)
             THEN send_message(message, gw.connections[id.value].channel, gw)
             ELSE [gw EXCEPT !.log = "debug: Couldn't find connection"]
        ELSE [gw EXCEPT !.log = "error: Message didn't had a global world ID attached"]

\* The messages that are dispatched: a packet message and a system message
\* for every entity, and a message without a connection id.
Messages ==
    {[ty |-> "ResponseCheckVersion", connection_id |-> c, packet |-> [name |-> <<>>]] :
        c \in Entities}
    \cup {[ty |-> "ResponseDropConnection", connection_id |-> c] : c \in Entities}
    \cup {[ty |-> "RequestRegisterConnection", response_channel |-> 1]}

\* The world gives entity e a Connection component with channel ch.
AddConnection(e, ch) ==
    /\ e \notin DOMAIN connections
    /\ connections' = [x \in DOMAIN connections \cup {e} |->
                          IF x = e THEN [channel |-> ch] ELSE connections[x]]
    /\ UNCHANGED <<inbox, dispatch, build, de, cmVars, netVars, evVars>>

\* The world deletes the Connection component of entity e.
RemoveConnection(e) ==
    /\ e \in DOMAIN connections
    /\ connections' = [x \in DOMAIN connections \ {e} |-> connections[x]]
    /\ UNCHANGED <<inbox, dispatch, build, de, cmVars, netVars, evVars>>

\* The number of send_packet_message calls so far.
NumSends == IF dispatch.called THEN dispatch.n ELSE 0

\* A system of the global world calls send_packet_message(message, connections).
SendPacketMessage(message) ==
    /\ NumSends < MaxSends
    /\ LET gw == send_packet_message(message,
                     [connections |-> connections, inbox |-> inbox, log |-> "none"])
       IN  /\ inbox' = gw.inbox
           /\ connections' = gw.connections
           /\ dispatch' = [called |-> TRUE, n |-> NumSends + 1,
                           message |-> message, log |-> gw.log,
                           result |-> "Unit"]
    /\ UNCHANGED <<build, de, cmVars, netVars, evVars>>

NextDispatch ==
    \/ \E e \in Entities, ch \in Channels : AddConnection(e, ch)
    \/ \E e \in Entities : RemoveConnection(e)
    \/ \E message \in Messages : SendPacketMessage(message)

SpecDispatch == Init /\ [][NextDispatch]_vars

(***************************************************************************)
(* Reading the trace.  A handler call leaves                                *)
(*   handle, <its effects in program order>, return                        *)
(* in the trace; the end of a system run leaves a flush entry.             *)
(***************************************************************************)
HandleIdx(tr) == {i \in 1..Len(tr) : tr[i].op = "handle"}

\* The index of the return entry that closes the call opened at index i.
ReturnIdx(tr, i) ==
    CHOOSE j \in (i + 1)..Len(tr) :
        /\ tr[j].op = "return"
        /\ \A k \in (i + 1)..(j - 1) : tr[k].op # "return"

\* The effects of the call opened at index i.
Effects(tr, i) == SubSeq(tr, i + 1, ReturnIdx(tr, i) - 1)

\* The events the call opened at index i sent, in order.
Sent(tr, i) ==
    LET sends == SelectSeq(Effects(tr, i), LAMBDA t : t.op = "send")
    IN  [k \in 1..Len(sends) |-> sends[k].event]

Result(tr, i) == tr[ReturnIdx(tr, i)].result

\* The call most recently made.
LastIdx(tr) == CHOOSE i \in HandleIdx(tr) : \A j \in HandleIdx(tr) : j <= i

\* TRUE iff the component of entity e was in the world when the call at
\* index i was made: e was spawned and a system run ended in between.
HadComponent(tr, i, e) ==
    \E j \in 1..(i - 1), k \in 1..(i - 1) :
        /\ j < k
        /\ tr[j].op = "spawn" /\ tr[j].entity = e
        /\ tr[k].op = "flush"

\* The packet requests handled for connection e, in order.
RequestsOf(tr, e) ==
    LET calls == SelectSeq(tr, LAMBDA t :
                     /\ t.op = "handle"
                     /\ t.event.ty \in {"RequestCheckVersion", "RequestLoginArbiter"}
                     /\ t.event.connection = e)
    IN  [k \in 1..Len(calls) |-> calls[k].event]

\* The packet responses sent for connection e, in order.
ResponsesOf(tr, e) ==
    LET sends == SelectSeq(tr, LAMBDA t :
                     /\ t.op = "send"
                     /\ t.event.ty # "ResponseRegisterConnection"
                     /\ t.event.connection = e)
    IN  [k \in 1..Len(sends) |-> sends[k].event]

\* TRUE iff every packet request for e was handled with e's component present.
AllWithComponent(tr, e) ==
    \A i \in HandleIdx(tr) :
        (tr[i].event.ty # "RequestRegisterConnection" /\ tr[i].event.connection = e)
            => HadComponent(tr, i, e)

IsValidCheckVersion(req) ==
    req.ty = "RequestCheckVersion" /\ Len(req.packet.version) = 2

IsLoginArbiter(req) == req.ty = "RequestLoginArbiter"

\* The handshake of e so far is one valid check-version and one login-arbiter
\* request, in either order, both handled with the component present.
HandshakePair(tr, e) ==
    LET reqs == RequestsOf(tr, e)
    IN  /\ Len(reqs) = 2
        /\ AllWithComponent(tr, e)
        /\ \/ IsValidCheckVersion(reqs[1]) /\ IsLoginArbiter(reqs[2])
           \/ IsLoginArbiter(reqs[1]) /\ IsValidCheckVersion(reqs[2])

LoginArbiterOf(reqs) == IF IsLoginArbiter(reqs[1]) THEN reqs[1] ELSE reqs[2]

(***************************************************************************)
(* C1                                                                      *)
(***************************************************************************)
\* C1 as stated: after a valid RequestCheckVersion and a RequestLoginArbiter
\* (with a ticket the handler reads) were handled for a registered connection
\* in either order, the responses sent for it are ResponseCheckVersion
\* {ok:true}, ResponseLoginArbiter{success:true},
\* ResponseLoadingScreenControlInfo, in this order.
C1_AsStated ==
    \A e \in Entities :
        ( /\ HandshakePair(trace, e)
          /\ from_utf8(LoginArbiterOf(RequestsOf(trace, e)).packet.ticket) ) =>
            ResponsesOf(trace, e) =
                << accept_check_version(e),
                   accept_login_arbiter(e, LoginArbiterOf(RequestsOf(trace, e)).packet),
                   assemble_loading_screen_info(e) >>

\* C1 amended: when the ticket of the login-arbiter request is well-formed
\* UTF-8, the responses sent for the connection are the accept response of
\* the request handled first, the accept response of the request handled
\* second, and then ResponseLoadingScreenControlInfo.
C1_Amended ==
    \A e \in Entities :
        LET reqs == RequestsOf(trace, e)
            la == LoginArbiterOf(reqs)
            cv_ok == accept_check_version(e)
            la_ok == accept_login_arbiter(e, la.packet)
        IN  (HandshakePair(trace, e) /\ from_utf8(la.packet.ticket)) =>
                ResponsesOf(trace, e) =
                    IF IsValidCheckVersion(reqs[1])
                    THEN <<cv_ok, la_ok, assemble_loading_screen_info(e)>>
                    ELSE <<la_ok, cv_ok, assemble_loading_screen_info(e)>>

\* The handshake was completed, login arbiter first, with a well-formed ticket.
C1_Witness ==
    \E e \in Entities :
        /\ HandshakePair(trace, e)
        /\ from_utf8(LoginArbiterOf(RequestsOf(trace, e)).packet.ticket)
        /\ IsLoginArbiter(RequestsOf(trace, e)[1])
        /\ Len(ResponsesOf(trace, e)) = 3

\* A step of a handler (the end of a system run appends a flush entry).
Handled == trace' # trace /\ trace'[Len(trace')].op = "return"

LastRequest == trace[LastIdx(trace)].event
LastSent == Sent(trace, LastIdx(trace))
LastResult == Result(trace, LastIdx(trace))

(***************************************************************************)
(* C2                                                                      *)
(***************************************************************************)
\* C2: a RequestCheckVersion with a connection id and a version array whose
\* length is not 2 sends exactly one ResponseCheckVersion{ok:false} for that
\* connection, no post-init event, and leaves every Connection component
\* (version_checked and verified) as it was.
C2_LengthGuard ==
    [][ LET req == LastRequest'
        IN  ( /\ Handled
              /\ req.ty = "RequestCheckVersion"
              /\ req.connection # None
              /\ Len(req.packet.version) # 2 )
            => ( /\ LastSent' = <<reject_check_version(req.connection)>>
                 /\ world' = world )
      ]_vars

\* A too long and a too short version array were refused for a connection
\* whose component is in the world and already verified.
C2_Witness ==
    \E e \in DOMAIN world :
        /\ world[e].verified
        /\ \E i, j \in HandleIdx(trace) :
              /\ trace[i].event.ty = "RequestCheckVersion"
              /\ trace[i].event.connection = e
              /\ Len(trace[i].event.packet.version) > 2
              /\ HadComponent(trace, i, e)
              /\ trace[j].event.ty = "RequestLoginArbiter"
              /\ trace[j].event.connection = e
              /\ j < i

(***************************************************************************)
(* C3                                                                      *)
(***************************************************************************)
\* C3: every RequestRegisterConnection creates one new entity with
\* verified = false and version_checked = false, inserts (entity -> the
\* request's channel) into the registry once and before it sends
\* ResponseRegisterConnection for that same entity; no other registration
\* uses that entity id or overwrites its registry entry.
C3_Registration ==
    \A i \in HandleIdx(trace) :
        trace[i].event.ty = "RequestRegisterConnection" =>
            \E e \in Entities :
                /\ Effects(trace, i) =
                     << [op |-> "spawn", entity |-> e,
                         component |-> [verified |-> FALSE,
                                        version_checked |-> FALSE]],
                        [op |-> "insert", entity |-> e,
                         channel |-> trace[i].event.response_channel],
                        [op |-> "send",
                         event |-> accept_connection_registration(e)] >>
                /\ \A j \in 1..Len(trace) :
                      (trace[j].op \in {"spawn", "insert"} /\ trace[j].entity = e)
                          => j \in {i + 1, i + 2}
                /\ e \in DOMAIN connection_mapping
                /\ connection_mapping[e] = trace[i].event.response_channel

\* Two connections were registered with different channels.
C3_Witness ==
    /\ DOMAIN connection_mapping = {1, 2}
    /\ connection_mapping[1] # connection_mapping[2]
    /\ Cardinality({i \in HandleIdx(trace) :
                       trace[i].event.ty = "RequestRegisterConnection"}) = 2

(***************************************************************************)
(* C5                                                                      *)
(***************************************************************************)
\* C5 as stated: whatever the ticket bytes are, a RequestLoginArbiter for a
\* connection whose component exists sets verified and sends
\* ResponseLoginArbiter{success:true, status:1, region of the request,
\* pvp_disabled:true} for that connection.
C5_AsStated ==
    [][ LET req == LastRequest'
        IN  ( /\ Handled
              /\ req.ty = "RequestLoginArbiter"
              /\ req.connection # None
              /\ req.connection \in DOMAIN world )
            => ( /\ world'[req.connection].verified
                 /\ Len(LastSent') >= 1
                 /\ LastSent'[1] = accept_login_arbiter(req.connection, req.packet) )
      ]_vars

\* C5 amended: the same holds when the ticket is well-formed UTF-8; when it
\* is not, the handler returns the UTF-8 error, sends nothing and leaves
\* every component as it was.
C5_Amended ==
    [][ LET req == LastRequest'
        IN  ( /\ Handled
              /\ req.ty = "RequestLoginArbiter"
              /\ req.connection # None
              /\ req.connection \in DOMAIN world )
            => IF from_utf8(req.packet.ticket)
               THEN /\ world'[req.connection].verified
                    /\ Len(LastSent') >= 1
                    /\ LastSent'[1] =
                         [ty |-> "ResponseLoginArbiter",
                          connection |-> req.connection,
                          packet |-> [success |-> TRUE, login_queue |-> FALSE,
                                      status |-> 1, unk1 |-> 0,
                                      region |-> req.packet.region,
                                      pvp_disabled |-> TRUE,
                                      unk2 |-> 0, unk3 |-> 0]]
                    /\ LastResult' = "Ok"
               ELSE /\ LastSent' = <<>>
                    /\ LastResult' = "Utf8Error"
                    /\ world' = world
      ]_vars

\* A login-arbiter request of each region was accepted, and one with an
\* ill-formed ticket was handled, for a connection whose component exists.
C5_Witness ==
    \E e \in DOMAIN world :
        /\ world[e].verified
        /\ \E i, j \in HandleIdx(trace) :
              /\ trace[i].event.ty = "RequestLoginArbiter"
              /\ trace[i].event.connection = e
              /\ trace[i].event.packet.region = "Europe"
              /\ from_utf8(trace[i].event.packet.ticket)
              /\ HadComponent(trace, i, e)
              /\ trace[j].event.ty = "RequestLoginArbiter"
              /\ trace[j].event.connection = e
              /\ ~from_utf8(trace[j].event.packet.ticket)
              /\ HadComponent(trace, j, e)

(***************************************************************************)
(* C4                                                                      *)
(***************************************************************************)
\* C4 as stated: the registry entry of a connection resolves only while its
\* session task is alive; once the task has ended the entry is removed.
C4_AsStated ==
    \A t \in Channels :
        (task[t] = "closed" /\ session_id[t] # None)
            => session_id[t] \notin DOMAIN connection_mapping

(***************************************************************************)
(* The variants by direction, as their names give it.                      *)
(***************************************************************************)
RequestNames ==
    {"RequestRegisterConnection", "RequestLoginArbiter", "RequestCheckVersion",
     "RequestSetVisibleRange", "RequestGetUserList", "RequestPong",
     "RequestCanCreateUser", "RequestCheckUserName", "RequestCreateUser"}

ResponseNames ==
    {"ResponseLoginArbiter", "ResponseCheckVersion",
     "ResponseLoadingScreenControlInfo", "ResponseRemainPlayTime",
     "ResponseLoginAccountInfo", "ResponseGetUserList", "ResponsePing",
     "ResponseCanCreateUser", "ResponseCheckUserName", "ResponseCreateUser",
     "ResponseRegisterConnection", "ResponseDropConnection"}

SystemNames == {"ResponseRegisterConnection", "ResponseDropConnection"}

PacketNames == (RequestNames \cup ResponseNames)
                   \ (SystemNames \cup {"RequestRegisterConnection"})

\* The packet variants declared for an opcode.
VariantsOf(o) == {p \in PacketEvents : p.opcode = o}

C7_ConnectionId ==
    ev_view.viewed =>
        /\ (ev_view.connection_id = OptNone) <=> (ev.ty = "RequestRegisterConnection")
        /\ ev.ty # "RequestRegisterConnection"
              => ev_view.connection_id = [is_some |-> TRUE, value |-> ev.connection_id]

\* connection_id was called on a system event built with id 2.
C7_Witness ==
    /\ ev_view.viewed
    /\ ev.ty = "ResponseDropConnection"
    /\ ev.connection_id = 2
    /\ ev_view.connection_id.is_some

(***************************************************************************)
(* C8                                                                      *)
(***************************************************************************)
\* C8: the target of an event depends only on its variant; every event whose
\* target is Connection is a Response variant, and every Request variant
\* targets a world (Global or Local), never Connection.
C8_TargetDirection ==
    ev_view.viewed =>
        /\ ev_view.target = "Connection" => ev.ty \in ResponseNames
        /\ ev.ty \in RequestNames => ev_view.target \in {"Global", "Local"}
        /\ \A other \in BuiltEvents :
              other.ty = ev.ty => target(other) = ev_view.target

\* target was called on a request that came in as a packet.
C8_Witness ==
    /\ ev_view.viewed
    /\ ev_call.called
    /\ ev.ty = "RequestPong"
    /\ ev_view.target = "Global"

(***************************************************************************)
(* C9                                                                      *)
(***************************************************************************)
\* C9 as stated: every packet variant returns Some(its declared opcode) from
\* opcode and Some(payload) from data; RequestRegisterConnection and the two
\* system events return None from both.
C9_AsStated ==
    ev_view.viewed =>
        IF ev.ty \in PacketNames
        THEN /\ ev_view.opcode = Some(PacketEventOf(ev.ty).opcode)
             /\ ev_view.data.ok
             /\ ev_view.data.value.is_some
        ELSE /\ ev_view.opcode = OptNone
             /\ ev_view.data = Ok(OptNone)

\* C9 amended: every packet variant returns Some(its declared opcode) from
\* opcode and, when its packet encodes, Some(payload) from data; when the
\* packet does not encode, data returns the encoder's error.
\* RequestRegisterConnection and the two system events return None from both.
C9_Amended ==
    ev_view.viewed =>
        IF ev.ty \in PacketNames
        THEN /\ ev_view.opcode.is_some
             /\ \E p \in PacketEvents :
                    p.ty = ev.ty /\ p.opcode = ev_view.opcode.value
             /\ ev.ty = "ResponseCheckVersion"
                    => ev_view.opcode.value = "S_CHECK_VERSION"
             /\ IF to_vec(ev.packet).ok
                THEN ev_view.data = Ok(Some(to_vec(ev.packet).value))
                ELSE ~ev_view.data.ok
        ELSE /\ ev_view.opcode = OptNone
             /\ ev_view.data = Ok(OptNone)

\* opcode and data were called on a Response packet event whose packet
\* encodes.
C9_Witness ==
    /\ ev_view.viewed
    /\ ev.ty = "ResponseCheckVersion"
    /\ ev_view.opcode = Some("S_CHECK_VERSION")
    /\ ev_view.data = Ok(Some(<<6, 0, 65, 0, 0, 0>>))

DeLog == de.d.log
DeOut == de.d.out
DeFailed(e) == ~DeOut.ok /\ DeOut.err = e

\* The last step op of sequence seq before index j of the log, 0 if none.
LastStep(log, j, op, seq) ==
    LET before == {k \in 1..(j - 1) : log[k].op = op /\ log[k].seq = seq}
    IN  IF before = {} THEN 0 ELSE CHOOSE k \in before : \A m \in before : m <= k

\* The sequence header step of sequence seq before index j of the log.
HeaderStep(log, j, seq) == LastStep(log, j, "seq_header", seq)

ValidOffset(offset) == offset = 0 \/ offset >= 4

\* v holds a chain of n entries from wire offset `offset` on: each entry with
\* `size` bytes behind its two offsets lies in v, its self_offset is its own
\* body position + 4 and its next_offset is the offset of the following one.
RECURSIVE WellFormedChain(_, _, _, _)
WellFormedChain(v, offset, n, size) ==
    \/ n = 0
    \/ /\ offset >= 4
       /\ offset + size <= Len(v)
       /\ read_u16(v, offset - 4) = offset
       /\ ValidOffset(read_u16(v, offset - 2))
       /\ WellFormedChain(v, read_u16(v, offset - 2), n - 1, size)

\* The body positions of the entries of that chain, in chain order.
RECURSIVE ChainOf(_, _, _)
ChainOf(v, offset, n) ==
    IF n = 0 THEN <<>>
    ELSE <<offset - 4>> \o ChainOf(v, read_u16(v, offset - 2), n - 1)

\* The body v starts with the header of a well-formed sequence.
WellFormedSeq(v, size) ==
    /\ ValidOffset(read_u16(v, 2))
    /\ WellFormedChain(v, read_u16(v, 2), read_u16(v, 0), size)

\* C12: a body with a sequence header (n, first_offset) and a well-formed
\* chain of n entries decodes to exactly n elements, in chain order, each with
\* the values stored in its entry; the C_CHECK_VERSION body decodes to
\* {0, 363037}, {1, 359374}.
C12_WellFormedSeq ==
    de.called =>
        LET chain == ChainOf(de.v, read_u16(de.v, 2), read_u16(de.v, 0))
        IN  /\ (de.T = ListThenTail /\ WellFormedSeq(de.v, 2)) =>
                 /\ DeOut.ok
                 /\ DeOut.value.list =
                      [i \in 1..read_u16(de.v, 0) |->
                          [v |-> read_u16(de.v, chain[i] + 4)]]
            /\ (de.T = CCheckVersionT /\ WellFormedSeq(de.v, 8)) =>
                 /\ DeOut.ok
                 /\ DeOut.value.version =
                      [i \in 1..read_u16(de.v, 0) |->
                          [index |-> read_u32(de.v, chain[i] + 4),
                           value |-> read_u32(de.v, chain[i] + 8)]]
                 /\ de.v = CheckVersionBody =>
                      DeOut.value.version = << [index |-> 0, value |-> 363037],
                                               [index |-> 1, value |-> 359374] >>

\* A well-formed chain whose first entry is stored behind its second one
\* was decoded in chain order.
C12_Witness ==
    /\ de.called
    /\ de.T = ListThenTail
    /\ WellFormedSeq(de.v, 2)
    /\ DeOut.ok
    /\ DeOut.value.list = <<[v |-> 22], [v |-> 11]>>

(***************************************************************************)
(* C13                                                                     *)
(***************************************************************************)
\* C13: when a sequence has been decoded to its end (also one of count 0 and
\* one nested in an element of another sequence) the decoder is at the byte
\* behind the 4-byte header of that sequence, and the field declared after
\* the sequence is read there.
C13_PositionRestored ==
    de.called =>
        /\ \A j \in 1..Len(DeLog) :
              DeLog[j].op = "restore" =>
                 LET h == HeaderStep(DeLog, j, DeLog[j].seq)
                 IN  /\ h > 0
                     /\ DeLog[j].pos = DeLog[h].at + 4
                     /\ (/\ j < Len(DeLog)
                         /\ DeLog[j + 1].op = "read"
                         /\ ~DeLog[j + 1].derived)
                          => DeLog[j + 1].at = DeLog[h].at + 4
        /\ (DeOut.ok /\ de.T \in {ListThenTail, Nested}) =>
              DeOut.value.tail = read_u16(de.v, 4)
        /\ (DeOut.ok /\ de.T = Nested) =>
              \A i \in 1..Len(DeOut.value.outer) :
                  DeOut.value.outer[i].x = read_u16(de.v, 14)

\* A sequence nested in the element of another sequence was decoded, two
\* elements long, and the outer sequence after it.
C13_Witness ==
    /\ de.called
    /\ de.T = Nested
    /\ DeOut.ok
    /\ Len(DeOut.value.outer) = 1
    /\ DeOut.value.outer[1].inner = <<9, 8>>
    /\ DeOut.value.tail = 77

(***************************************************************************)
(* C14                                                                     *)
(***************************************************************************)
\* C14 as stated: a wire offset of 0 in the header of a string, of a byte
\* buffer or of a sequence (first_offset, next_offset) is never dereferenced:
\* no byte of the body is read at a position that comes from an offset of 0.
C14_AsStated ==
    de.called =>
        \A j \in 1..Len(DeLog) :
            (DeLog[j].op = "read" /\ DeLog[j].derived /\ DeLog[j].n > 0)
                => DeLog[j].off # 0

(***************************************************************************)
(* C15                                                                     *)
(***************************************************************************)
\* The header of the byte buffer of a BufThenTail body, and the payload
\* position it names.
BufOffset == read_u16(de.v, 0)
BufLength == read_u16(de.v, 2)
BufPosition == abs_offset(BufOffset)

\* The byte buffer decode of de left the payload alone.
NoPayloadRead ==
    \A j \in 1..Len(DeLog) :
        DeLog[j].op = "read" => DeLog[j].what # "buf_payload"

\* C15 as stated: decoding a byte buffer with header (offset, length) returns
\* the `length` bytes of the body from the payload position on when payload
\* position + length <= body length, and fails with BytesTooBig without
\* reading a payload byte otherwise; either way the 4 bytes of the header are
\* what is consumed at the inline position.
C15_AsStated ==
    (de.called /\ de.T = BufThenTail) =>
        IF BufPosition + BufLength <= Len(de.v)
        THEN /\ DeOut.ok
             /\ DeOut.value.b =
                  [i \in 1..BufLength |-> de.v[BufPosition + i]]
             /\ DeOut.value.tail = read_u16(de.v, 4)
        ELSE /\ DeFailed("BytesTooBig")
             /\ NoPayloadRead
             /\ de.d.pos = 4

(***************************************************************************)
(* C16                                                                     *)
(***************************************************************************)
\* The header of the string of a TagStr body and the payload position.
StrOffset == read_u16(de.v, 2)
StrPosition == abs_offset(StrOffset)

\* No 16-bit zero lies in v on the 2-byte grid that starts at position p.
NoTerminator(v, p) ==
    ~\E i \in p..(Len(v) - 2) :
        (i - p) % 2 = 0 /\ v[i + 1] = 0 /\ v[i + 2] = 0

\* Every slice the decode took lies in the body.
ReadsInBody ==
    \A j \in 1..Len(DeLog) :
        DeLog[j].op = "read" =>
            (DeLog[j].at >= 0 /\ DeLog[j].at + DeLog[j].n <= Len(de.v))

\* C16 as stated: when the body holds no 16-bit zero on the 2-byte grid from
\* the payload position of a string to its end (the remaining length may be
\* odd), the decode returns StringNotNullTerminated or OffsetOutsideData and
\* reads nothing behind the end of the body.
C16_AsStated ==
    (de.called /\ de.T = TagStr /\ ValidOffset(StrOffset)
               /\ NoTerminator(de.v, StrPosition)) =>
        /\ DeFailed("StringNotNullTerminated") \/ DeFailed("OffsetOutsideData")
        /\ ReadsInBody

(***************************************************************************)
(* C17                                                                     *)
(***************************************************************************)
\* A step of send_packet_message.
Dispatched == dispatch' # dispatch

EntityNotSetReturned ==
    /\ trace # <<>>
    /\ trace[Len(trace)].op = "return"
    /\ trace[Len(trace)].result = "EntityNotSet"

\* C18: a RequestCheckVersion or RequestLoginArbiter without a connection id
\* returns EntityNotSet, sends no event, and leaves every Connection
\* component, the command buffer and the registry as they were; after it the
\* system handles the next event of the run as after any other.
C18_EntityNotSet ==
    /\ [][ LET req == LastRequest'
           IN  ( /\ Handled
                 /\ req.ty \in {"RequestCheckVersion", "RequestLoginArbiter"}
                 /\ req.connection = None )
               => ( /\ LastResult' = "EntityNotSet"
                    /\ Effects(trace', LastIdx(trace')) = <<>>
                    /\ world' = world
                    /\ command_buffer' = command_buffer
                    /\ connection_mapping' = connection_mapping
                    /\ allocated' = allocated )
         ]_vars
    /\ []((EntityNotSetReturned /\ NumHandled < MaxEvents)
            => (ENABLED CheckVersion /\ ENABLED LoginArbiter))

\* A request without a connection id was handled for each of the two kinds,
\* and a request that came after them in the same run of the system was
\* answered.
C18_Witness ==
    \E i, j, k \in HandleIdx(trace) :
        /\ i < j /\ j < k
        /\ trace[i].event.ty = "RequestCheckVersion"
        /\ trace[i].event.connection = None
        /\ trace[j].event.ty = "RequestLoginArbiter"
        /\ trace[j].event.connection = None
        /\ Result(trace, i) = "EntityNotSet"
        /\ Result(trace, j) = "EntityNotSet"
        /\ \A m \in i..k : trace[m].op # "flush"
        /\ Sent(trace, k) # <<>>

(***************************************************************************)
(* C19                                                                     *)
(***************************************************************************)
\* The reject response of a request, as the claim gives it.
RejectOf(req) ==
    IF req.ty = "RequestCheckVersion"
    THEN [ty |-> "ResponseCheckVersion", connection |-> req.connection,
          packet |-> [ok |-> FALSE]]
    ELSE [ty |-> "ResponseLoginArbiter", connection |-> req.connection,
          packet |-> [success |-> FALSE, login_queue |-> FALSE, status |-> 0,
                      unk1 |-> 0, region |-> req.packet.region,
                      pvp_disabled |-> FALSE, unk2 |-> 0, unk3 |-> 0]]

\* The handler call that was just made sent the reject response of its
\* request and nothing else, and left the world as it was: no component was
\* written or queued.
OnlyRejected(req) ==
    /\ LastSent' = <<RejectOf(req)>>
    /\ LastResult' = "Ok"
    /\ world' = world
    /\ command_buffer' =
         Append(command_buffer, [cmd |-> "event", event |-> RejectOf(req)])

\* A request with a connection id whose Connection component is not found.
ComponentNotFound(req) ==
    /\ Handled
    /\ req.ty \in {"RequestCheckVersion", "RequestLoginArbiter"}
    /\ req.connection # None
    /\ req.connection \notin DOMAIN world

\* C19 as stated: a handler whose connection id is present but whose
\* Connection component is not found sends the reject response for that id
\* (ResponseCheckVersion{ok:false}, ResponseLoginArbiter{success:false,
\* status:0}), no accept response and no post-init event, and creates no
\* component.
C19_AsStated ==
    [][ComponentNotFound(LastRequest') => OnlyRejected(LastRequest')]_vars

\* C19 amended: the same, when the ticket of a RequestLoginArbiter is
\* well-formed UTF-8; when it is not, the handler returns the UTF-8 error
\* before it looks for the component: nothing is sent, nothing is changed.
C19_Amended ==
    [][ LET req == LastRequest'
        IN  ComponentNotFound(req) =>
               IF req.ty = "RequestLoginArbiter" /\ ~from_utf8(req.packet.ticket)
               THEN /\ LastSent' = <<>>
                    /\ LastResult' = "Utf8Error"
                    /\ world' = world
                    /\ command_buffer' = command_buffer
               ELSE OnlyRejected(req)
      ]_vars

\* A check-version request of length 2 and a login-arbiter request with a
\* well-formed ticket were rejected for an entity that was registered in the
\* same run of the system, its component not yet in the world.
C19_Witness ==
    \E i, j \in HandleIdx(trace), e \in DOMAIN connection_mapping :
        /\ trace[i].event = RequestCheckVersion(e, CCheckVersion(2))
        /\ Sent(trace, i) = <<reject_check_version(e)>>
        /\ trace[j].event.ty = "RequestLoginArbiter"
        /\ trace[j].event.connection = e
        /\ from_utf8(trace[j].event.packet.ticket)
        /\ Sent(trace, j) = <<reject_login_arbiter(e, trace[j].event.packet)>>
        /\ e \notin DOMAIN world

(***************************************************************************)
(* C20                                                                     *)
(***************************************************************************)
\* The steps of task t in the log of the server.
StepsOf(t, what) ==
    {i \in 1..Len(net_trace) : net_trace[i].task = t /\ net_trace[i].step = what}

\* C20: a step in which GameSession::new fails, handle_connection returns
\* (Ok or Err) or accept fails changes the state of no other task; as long
\* as a socket is to be accepted the accept loop accepts it, whatever failed
\* before; every accepted socket was spawned its task once, and a spawned
\* task can send on its clone of the global channel whatever happened to the
\* other tasks.
C20_FailureIsolation ==
    /\ [][ /\ \A t \in Channels :
                (task[t] # "closed" /\ task'[t] = "closed") =>
                    \A u \in Channels \ {t} :
                        task'[u] = task[u] /\ session_id'[u] = session_id[u]
           /\ (Len(net_trace') > Len(net_trace)
                 /\ net_trace'[Len(net_trace')].step = "accept_error") =>
                    (task' = task /\ session_id' = session_id
                       /\ global_channel' = global_channel)
         ]_vars
    /\ []( /\ (\E t \in Channels : task[t] = "listening")
                => ENABLED (\E t \in Channels : Accept(t))
           /\ \A t \in Channels :
                /\ task[t] = "spawned" => ENABLED SessionRegister(t)
                /\ Cardinality(StepsOf(t, "spawn")) =
                     IF task[t] = "listening" THEN 0 ELSE 1 )

\* The session of the first socket ended with an error and accept failed
\* once; the second socket was accepted after both and its session runs.
C20_Witness ==
    /\ task[2] = "running"
    /\ \E i \in StepsOf(1, "Err"), j \in StepsOf(None, "accept_error"),
          k \in StepsOf(2, "spawn") : i < k /\ j < k

(***************************************************************************)
(* The handshake of one connection: the connection manager is driven with  *)
(* the registration of one session and with up to MaxRequests packet       *)
(* requests for its connection id, among them requests that are repeated,  *)
(* re-sent after the handshake was completed, or handled before the        *)
(* component of the connection is in the world.                            *)
(***************************************************************************)
\* The connection whose handshake is followed: the first entity handed out.
Client == 1

NumRequests ==
    Len(SelectSeq(trace, LAMBDA t :
            t.op = "handle" /\ t.event.ty # "RequestRegisterConnection"))

\* The session of the client registers with response channel 1.
HsRegister ==
    /\ allocated < Client
    /\ Commit(handle_connection_registration(
                1, Incoming(RequestRegisterConnection(1))))
    /\ UNCHANGED <<netVars, evVars, decVars, gwVars>>

HsCheckVersion ==
    /\ NumRequests < MaxRequests
    /\ \E n \in {2, 3} :
          Commit(handle_request_check_version(
                   Client, CCheckVersion(n),
                   Incoming(RequestCheckVersion(Client, CCheckVersion(n)))))
    /\ UNCHANGED <<netVars, evVars, decVars, gwVars>>

HsLoginArbiter ==
    /\ NumRequests < MaxRequests
    /\ \E ticket \in Tickets :
          Commit(handle_request_login_arbiter(
                   Client, CLoginArbiter(ticket, "Europe"),
                   Incoming(RequestLoginArbiter(
                              Client, CLoginArbiter(ticket, "Europe")))))
    /\ UNCHANGED <<netVars, evVars, decVars, gwVars>>

NextHandshake ==
    \/ HsRegister
    \/ HsCheckVersion
    \/ HsLoginArbiter
    \/ EndOfSystem

SpecHandshake == Init /\ [][NextHandshake]_vars

(***************************************************************************)
(* C21                                                                     *)
(***************************************************************************)
IsPostInit(event) == event.ty = "ResponseLoadingScreenControlInfo"

\* TRUE iff event is the accept response to request req.
IsAcceptOf(req, event) ==
    /\ event.connection = req.connection
    /\ IF req.ty = "RequestCheckVersion"
       THEN event.ty = "ResponseCheckVersion" /\ event.packet.ok
       ELSE event.ty = "ResponseLoginArbiter" /\ event.packet.success

\* C21: ResponseLoadingScreenControlInfo is sent for a connection only by a
\* check-version or login-arbiter call after which verified and
\* version_checked of that connection are both true; it is sent right after
\* the accept response of that call, and a call that sent a reject response
\* sends none.
C21_PostInit ==
    [][ Handled =>
          \A req \in {LastRequest'}, sent \in {LastSent'} :
              \A k \in 1..Len(sent) :
                IsPostInit(sent[k]) =>
                    /\ req.ty \in {"RequestCheckVersion", "RequestLoginArbiter"}
                    /\ sent[k] = assemble_loading_screen_info(req.connection)
                    /\ req.connection \in DOMAIN world'
                    /\ world'[req.connection].verified
                    /\ world'[req.connection].version_checked
                    /\ k = 2
                    /\ Len(sent) = 2
                    /\ IsAcceptOf(req, sent[1])
                    /\ \A j \in 1..Len(sent) : sent[j] # RejectOf(req)
      ]_vars

\* Post-init was sent by a check-version call and by a login-arbiter call,
\* after a request of the same connection had been rejected and one had been
\* accepted without post-init.
C21_Witness ==
    \E r, a, i, j \in HandleIdx(trace) :
        /\ r < a /\ a < i /\ a < j
        /\ trace[r].event.ty # "RequestRegisterConnection"
        /\ Sent(trace, r) = <<RejectOf(trace[r].event)>>
        /\ trace[a].event.ty # "RequestRegisterConnection"
        /\ Len(Sent(trace, a)) = 1
        /\ IsAcceptOf(trace[a].event, Sent(trace, a)[1])
        /\ trace[i].event.ty = "RequestCheckVersion"
        /\ Len(Sent(trace, i)) = 2 /\ IsPostInit(Sent(trace, i)[2])
        /\ trace[j].event.ty = "RequestLoginArbiter"
        /\ Len(Sent(trace, j)) = 2 /\ IsPostInit(Sent(trace, j)[2])

(***************************************************************************)
(* C27                                                                     *)
(***************************************************************************)
\* The post-init events sent for connection e so far.
PostInitsOf(tr, e) == SelectSeq(ResponsesOf(tr, e), IsPostInit)

\* C27 as stated: over any sequence of RequestCheckVersion and
\* RequestLoginArbiter events of one connection, requests repeated after
\* both flags are true included, at most one
\* ResponseLoadingScreenControlInfo is sent for that connection.
C27_AsStated == \A e \in Entities : Len(PostInitsOf(trace, e)) <= 1

(***************************************************************************)
(* C26                                                                     *)
(***************************************************************************)
\* The flag of connection e is true in world w.
VersionChecked(w, e) == e \in DOMAIN w /\ w[e].version_checked
Verified(w, e) == e \in DOMAIN w /\ w[e].verified

\* C26: over any sequence of RequestRegisterConnection, RequestCheckVersion
\* and RequestLoginArbiter events, a flag of a connection that is true never
\* becomes false again; version_checked becomes true only by a
\* RequestCheckVersion of length 2 for that connection, and verified only by
\* a RequestLoginArbiter for that connection.
C26_FlagsMonotonic ==
    [][ \A e \in Entities :
          /\ VersionChecked(world, e) => VersionChecked(world', e)
          /\ Verified(world, e) => Verified(world', e)
          /\ (~VersionChecked(world, e) /\ VersionChecked(world', e)) =>
                /\ Handled
                /\ LastRequest'.ty = "RequestCheckVersion"
                /\ LastRequest'.connection = e
                /\ Len(LastRequest'.packet.version) = 2
          /\ (~Verified(world, e) /\ Verified(world', e)) =>
                /\ Handled
                /\ LastRequest'.ty = "RequestLoginArbiter"
                /\ LastRequest'.connection = e
      ]_vars

\* A flag of the first connection was set, and after that a second connection
\* was registered and its component written into the world.
C26_Witness ==
    /\ DOMAIN world = {1, 2}
    /\ world[1].version_checked \/ world[1].verified
    /\ \E i, j \in HandleIdx(trace) :
          /\ i < j
          /\ trace[i].event.ty # "RequestRegisterConnection"
          /\ trace[i].event.connection = 1
          /\ trace[j].event.ty = "RequestRegisterConnection"

(***************************************************************************)
(* C28                                                                     *)
(***************************************************************************)
\* The Connection components of every connection other than e.
Others(w, e) == [c \in (DOMAIN w) \ {e} |-> w[c]]

\* The components a command buffer holds for entities still to be created.
QueuedEntities(cmds) == SelectSeq(cmds, LAMBDA c : c.cmd = "entity")

\* C28: handling a RequestCheckVersion or RequestLoginArbiter for connection
\* A leaves the Connection component of every other connection and the
\* whole registry unchanged, and every response it sends carries connection
\* id A; only RequestRegisterConnection changes the registry.
C28_FrameEffect ==
    [][ /\ Handled =>
            \A req \in {LastRequest'} :
                ( /\ req.ty \in {"RequestCheckVersion", "RequestLoginArbiter"}
                  /\ req.connection # None )
                => ( /\ Others(world', req.connection) = Others(world, req.connection)
                     /\ DOMAIN world' = DOMAIN world
                     /\ QueuedEntities(command_buffer') = QueuedEntities(command_buffer)
                     /\ connection_mapping' = connection_mapping
                     /\ allocated' = allocated
                     /\ \A sent \in {LastSent'} :
                           \A k \in 1..Len(sent) :
                               sent[k].connection = req.connection )
        /\ connection_mapping' # connection_mapping =>
              /\ Handled
              /\ LastRequest'.ty = "RequestRegisterConnection"
      ]_vars

\* Two connections are registered and their components are in the world; a
\* request of the second was accepted.
C28_Witness ==
    /\ DOMAIN world = {1, 2}
    /\ DOMAIN connection_mapping = {1, 2}
    /\ \E i \in HandleIdx(trace) :
          /\ trace[i].event.ty \in {"RequestCheckVersion", "RequestLoginArbiter"}
          /\ trace[i].event.connection = 2
          /\ HadComponent(trace, i, 2)
          /\ Len(Sent(trace, i)) = 1
          /\ IsAcceptOf(trace[i].event, Sent(trace, i)[1])

(***************************************************************************)
(* C23                                                                     *)
(***************************************************************************)
\* What task t did so far, in order.
TaskSteps(t) ==
    LET own == SelectSeq(net_trace, LAMBDA n : n.task = t)
    IN  [k \in 1..Len(own) |-> own[k].step]

\* The complete lives of a session task.
TaskOrders ==
    { <<"spawn", "new", "handle_connection", "Ok">>,
      <<"spawn", "new", "handle_connection", "Err">>,
      <<"spawn", "new", "new_failed">>,
      <<"spawn", "new_failed">> }

IsPrefix(s, full) == Len(s) <= Len(full) /\ s = SubSeq(full, 1, Len(s))

\* C23: a session task goes creation -> running -> closed: handle_connection
\* runs only after GameSession::new succeeded and the connection id is
\* known, at most once per accepted socket; when creation fails the task
\* ends without running the session; a task that has ended does nothing
\* more.
C23_TaskOrder ==
    /\ []( \A t \in Channels :
             LET steps == TaskSteps(t)
             IN  /\ \E full \in TaskOrders : IsPrefix(steps, full)
                 /\ (\E k \in 1..Len(steps) : steps[k] = "handle_connection")
                       => /\ session_id[t] \in DOMAIN connection_mapping
                          /\ connection_mapping[session_id[t]] = t
                 /\ task[t] = "running"
                       <=> (steps # <<>> /\ steps[Len(steps)] = "handle_connection")
                 /\ task[t] = "closed"
                       <=> (steps # <<>> /\ steps[Len(steps)]
                                               \in {"Ok", "Err", "new_failed"}) )
    /\ [][ \A t \in Channels :
             task[t] = "closed" =>
                /\ task'[t] = "closed"
                /\ session_id'[t] = session_id[t]
                /\ TaskSteps(t)' = TaskSteps(t)
         ]_vars

\* One session ran and was closed, the creation of the other failed after it
\* had asked for its registration; both tasks have ended.
C23_Witness ==
    \E t, u \in Channels :
        /\ TaskSteps(t) = <<"spawn", "new", "handle_connection", "Err">>
        /\ TaskSteps(u) = <<"spawn", "new", "new_failed">>
        /\ task[t] = "closed" /\ task[u] = "closed"

(***************************************************************************)
(* C29                                                                     *)
(***************************************************************************)
\* C29 as stated: every Response* packet variant (it wraps an outbound S_*
\* packet) has target Connection: a response packet event is routed to the
\* response channel of the owning session, never into a world queue.
C29_AsStated ==
    (ev_view.viewed /\ ev.ty \in ResponseNames \ SystemNames) =>
        ev_view.target = "Connection"

(***************************************************************************)
(* C22                                                                     *)
(***************************************************************************)
\* The errors of the codec (a panic of the decoding thread is none).
CodecErrors ==
    {"OffsetOutsideData", "InvalidSeqEntry", "BytesTooBig",
     "StringNotNullTerminated"}

RejectedByCodec == ~DeOut.ok /\ DeOut.err \in CodecErrors

\* The conversions of wire offsets the decode made.
Conversions == {k \in 1..Len(DeLog) : DeLog[k].op = "abs_offset"}

\* C22 as stated: for every nonzero wire offset v of a header the body
\* position the decoder uses is v - 4; offsets 1, 2 and 3 neither wrap nor
\* underflow but are rejected with a codec error, and a position at or
\* behind the end of the body is rejected with OffsetOutsideData before it
\* is read.
C22_AsStated ==
    de.called =>
        /\ \A k \in Conversions :
              LET c == DeLog[k]
              IN  /\ c.offset >= 4 => c.abs = c.offset - 4
                  /\ c.offset \in 1..3 => RejectedByCodec
                  /\ (c.what = "str" /\ c.offset >= 4 /\ c.abs >= Len(de.v))
                        => DeFailed("OffsetOutsideData")
        /\ \A k \in 1..Len(DeLog) :
              DeLog[k].op = "seek" =>
                  (DeLog[k].to >= 0 /\ DeLog[k].to < Len(de.v))

(***************************************************************************)
(* C25                                                                     *)
(***************************************************************************)
\* The elements decoded for the sequence whose header step is at index h.
ElementsOf(log, h) ==
    {j \in 1..Len(log) :
        /\ log[j].op = "element"
        /\ log[j].seq = log[h].seq
        /\ HeaderStep(log, j, log[h].seq) = h}

\* C25: the decode of a sequence ends after at most `count` element decodes
\* (count <= 65535), also when the next_offset links form a cycle or an
\* entry links to itself: the number of element decodes is bounded by the
\* count of the header, not by the links.
C25_SeqTerminates ==
    de.called =>
        \A h \in 1..Len(DeLog) :
            DeLog[h].op = "seq_header" =>
                /\ DeLog[h].count <= 65535
                /\ Cardinality(ElementsOf(DeLog, h)) <= DeLog[h].count
                /\ \A j \in ElementsOf(DeLog, h) : DeLog[j].i < DeLog[h].count
                /\ DeOut.ok =>
                     Cardinality(ElementsOf(DeLog, h)) = DeLog[h].count

\* A sequence of MaxCount elements was decoded from a body whose two entries
\* link to each other: the decode went round the cycle and stopped at count.
C25_Witness ==
    /\ de.called
    /\ de.T = ListThenTail
    /\ DeOut.ok
    /\ MaxCount >= 3
    /\ Len(DeOut.value.list) = MaxCount
    /\ read_u16(de.v, 2) = 10
    /\ read_u16(de.v, 6) = 10 /\ read_u16(de.v, 8) = 16
    /\ read_u16(de.v, 12) = 16 /\ read_u16(de.v, 14) = 10

(***************************************************************************)
(* C24                                                                     *)
(***************************************************************************)
\* The reads of body bytes the decode made.
Reads == {k \in 1..Len(DeLog) : DeLog[k].op = "read"}

\* The bytes read at log index k lie inside the body.
InsideBody(k) ==
    DeLog[k].at >= 0 /\ DeLog[k].at + DeLog[k].n <= Len(de.v)

\* C24 as stated: decoding never reads outside the body: for every body,
\* an empty or cut off one included, and every schema, each read of a
\* scalar, a string header, a byte buffer header, a sequence header or a
\* sequence entry lies inside the body, or the decode returns a codec error;
\* no step of the decode indexes behind the end of the body.
C24_AsStated ==
    de.called =>
        /\ \A k \in Reads : InsideBody(k)
        /\ DeOut.ok \/ RejectedByCodec

====
